---- MODULE Spec2Model ----
(***************************************************************************)
(* Model of gros.utils.datahandling.SpaceTimeData: construction from a     *)
(* raw (N,5) trajectory array, size(), and plot() with its animation frame *)
(* sampler (_add_rerun_animation_frames).                                  *)
(*                                                                         *)
(* Numbers are exact integers. Angles are counted in quarter turns (1 is   *)
(* pi/2), where sine and cosine are exact. Python indices are 0-based: row *)
(* k of the table is rows[k + 1] here.                                     *)
(***************************************************************************)
EXTENDS Integers, Sequences, FiniteSets

VARIABLES
    copy_on_write,        \* environment: pd.DataFrame(ndarray) copies the buffer
    wsl,                  \* environment: "WSL_DISTRO_NAME" in os.environ
    pc,                   \* "new" | "failed" | "ready" | "plotted"
    given,                \* the caller's array as it was when __init__ was called
    trajectory,           \* the caller's array, which __init__ mutates in place
    conversion,           \* the conversion argument of __init__
    rs,                   \* self.rs
    max_num_anim_frames,  \* self.max_num_anim_frames
    df,                   \* self.df: [set, rows]; set = FALSE: no such attribute
    error,                \* the exception the last __init__ / plot call raised
    size_result,          \* what the last size() call returned or raised
    attractor_radius,     \* argument of the plot call
    animation_step_size,  \* argument of the plot call
    frame_step_size,      \* local of _add_rerun_animation_frames (0: not computed)
    frame_indices,        \* the values its loop variable k took, in order
    warnings,             \* number of logger.warning calls
    rr_calls              \* the calls made to the rerun API, in order

vars == <<copy_on_write, wsl, pc, given, trajectory, conversion, rs,
          max_num_anim_frames, df, error, size_result, attractor_radius,
          animation_step_size, frame_step_size, frame_indices, warnings, rr_calls>>

----------------------------------------------------------------------------
(* Bounds of the model *)

\* rows of the small, freely chosen arrays
MaxN == 2
\* rows of the long, uniformly sampled arrays (more than max_num_anim_frames + 1)
MaxLong == 102

TauVals == {0, 1, 3}
TVals == {2}
\* spherical triples (r, theta, phi), angles in quarter turns
SphericalVals == {<<2, 1, 1>>, <<1, 2, 3>>}
RsVals == {1}
AttractorVals == {0, 2}
StepVals == {-1, 0, 1, 2, 50, 101}
Conversions == {"spherical_to_cartesian", "identity"}

----------------------------------------------------------------------------
(* Pure helpers *)

Max(S) == CHOOSE m \in S : \A e \in S : e <= m

Abs(a) == IF a < 0 THEN -a ELSE a

\* math.ceil(num / den), den # 0
Ceil(num, den) ==
    LET n == IF den < 0 THEN -num ELSE num
        d == Abs(den)
    IN  IF n >= 0 THEN (n + d - 1) \div d ELSE -((-n) \div d)

\* the entries of range(start, stop, step) for step # 0, as a sequence
Range(start, stop, step) ==
    LET count == IF step > 0
                 THEN (IF stop > start THEN (stop - start + step - 1) \div step ELSE 0)
                 ELSE (IF start > stop THEN (start - stop - step - 1) \div (-step) ELSE 0)
    IN  [i \in 1..count |-> start + (i - 1) * step]

Sin(q) == CASE q % 4 = 0 -> 0 [] q % 4 = 1 -> 1 [] q % 4 = 2 -> 0 [] OTHER -> -1

Cos(q) == CASE q % 4 = 0 -> 1 [] q % 4 = 1 -> 0 [] q % 4 = 2 -> -1 [] OTHER -> 0

\* tf.spherical_to_cartesian
spherical_to_cartesian(r, theta, phi) ==
    <<r * Sin(theta) * Cos(phi), r * Sin(theta) * Sin(phi), r * Cos(theta)>>

DATA_COLUMNS == <<"tau", "t", "x", "y", "z">>

ColumnIndex(name) == CHOOSE i \in 1..Len(DATA_COLUMNS) : DATA_COLUMNS[i] = name

\* data[name][k], k a 0-based row label
Cell(rows, name, k) == rows[k + 1][ColumnIndex(name)]

\* f"{v:.6f}": v = num / den rounded to six decimals, in millionths
Format6(num, den) ==
    IF num >= 0 THEN (2 * num * 1000000 + den) \div (2 * den)
    ELSE -((2 * (-num) * 1000000 + den) \div (2 * den))

----------------------------------------------------------------------------
(* Inputs *)

ZeroRow == <<0, 0, 0, 0, 0>>

Rows ==
    {ZeroRow} \cup
    {<<tau, t, p[1], p[2], p[3]>> : tau \in TauVals, t \in TVals, p \in SphericalVals}

SmallArrays == UNION {[1..n -> Rows] : n \in 0..MaxN}

\* a worldline sampled every dtau seconds of proper time
Uniform(n, dtau) == [i \in 1..n |-> <<(i - 1) * dtau, (i - 1) * dtau + 1, 2, 1, (i - 1) % 4>>]

LongArrays == {Uniform(MaxLong, dtau) : dtau \in {1, 2}}

NdArray(shape, data) == [isnd |-> TRUE, shape |-> shape, data |-> data]

Inputs ==
    {NdArray(<<Len(a), 5>>, a) : a \in SmallArrays \cup LongArrays}
    \cup {NdArray(s, <<>>) : s \in {<< >>, <<5>>, <<0, 4>>, <<2, 4>>, <<2, 6>>, <<2, 5, 1>>}}
    \cup {[isnd |-> FALSE, shape |-> <<1, 5>>, data |-> <<<<1, 2, 2, 1, 1>>>>]}

NoInput == [isnd |-> FALSE, shape |-> << >>, data |-> << >>]

NoError == [type |-> "none", msg |-> ""]

NoTable == [set |-> FALSE, rows |-> << >>]

----------------------------------------------------------------------------
(* SpaceTimeData.__init__ *)

\* trajectory.any()
ArrayAny(data) == \E i \in 1..Len(data) : \E j \in 1..5 : data[i][j] # 0

\* the for loop over the rows: each row's columns 2..4 overwritten in place
ConvertRows(data) ==
    [i \in 1..Len(data) |->
        LET c == spherical_to_cartesian(data[i][3], data[i][4], data[i][5])
        IN  <<data[i][1], data[i][2], c[1], c[2], c[3]>>]

\* the array after __init__ ran its body on it
ArrayAfterInit(data, conv) ==
    IF ArrayAny(data) /\ conv = "spherical_to_cartesian" THEN ConvertRows(data) ELSE data

\* the rows self.df holds once __init__ returned: pd.DataFrame(trajectory) is built
\* before the loop; whether it shares the array's buffer (and so sees the loop's
\* writes) or holds a copy of it is the installed pandas' choice
TableAfterInit(data, conv, copies) ==
    IF copies THEN data ELSE ArrayAfterInit(data, conv)

\* the exception the two checks at the top of __init__ raise, or NoError
ValidationError(input) ==
    IF ~input.isnd
        THEN [type |-> "ValueError", msg |-> "dataset must be numpy ndarray!"]
    ELSE IF Len(input.shape) = 0
        THEN [type |-> "TypeError", msg |-> "len() of unsized object"]
    ELSE IF input.shape # <<input.shape[1], 5>>
        THEN [type |-> "ValueError", msg |-> "dataset shape needs to be (N,5)!"]
    ELSE NoError

Construct(input, r, conv) ==
    /\ pc = "new"
    /\ conversion' = conv
    /\ given' = input
    /\ LET e == ValidationError(input) IN
        IF e # NoError
        THEN /\ pc' = "failed"
             /\ error' = e
             /\ trajectory' = input
             /\ UNCHANGED <<rs, max_num_anim_frames, df>>
        ELSE /\ pc' = "ready"
             /\ error' = NoError
             /\ rs' = r
             /\ max_num_anim_frames' = 100
             /\ trajectory' = [input EXCEPT !.data = ArrayAfterInit(input.data, conv)]
             /\ df' = IF ArrayAny(input.data)
                      THEN [set |-> TRUE,
                            rows |-> TableAfterInit(input.data, conv, copy_on_write)]
                      ELSE NoTable
    /\ UNCHANGED <<copy_on_write, wsl, size_result, attractor_radius,
                   animation_step_size, frame_step_size, frame_indices, warnings,
                   rr_calls>>

----------------------------------------------------------------------------
(* SpaceTimeData.size *)

SizeOf(table) ==
    IF table.set THEN [error |-> "none", value |-> Len(table.rows)]
    ELSE [error |-> "AttributeError", value |-> -1]

Size ==
    /\ pc \in {"ready", "plotted"}
    /\ size_result' = SizeOf(df)
    /\ UNCHANGED <<copy_on_write, wsl, pc, given, trajectory, conversion, rs,
                   max_num_anim_frames, df, error, attractor_radius,
                   animation_step_size, frame_step_size, frame_indices, warnings,
                   rr_calls>>

----------------------------------------------------------------------------
(* SpaceTimeData._add_rerun_animation_frames *)

\* data["tau"].max()
TauMax(rows) == Max({Cell(rows, "tau", k) : k \in 0..(Len(rows) - 1)})

\* math.ceil(anim_step_size / data["tau"].max() * self.size()), tau_max # 0
ComputedStep(step_size, tau_max, n) == Ceil(step_size * n, tau_max)

\* a sampler that warns but keeps the computed stride
ClampedStepNotApplied(computed, max_frames) == computed

\* the if that follows: the stride the loop uses
ClampedStep(computed, max_frames) ==
    IF computed > max_frames THEN max_frames ELSE computed

\* whether that if logs its warning
StepWarns(computed, max_frames) == computed > max_frames

\* a loop that starts at the first sample
FrameIndicesFromZero(n, step) == Range(0, n, step)

\* the loop's range
FrameIndices(n, step) == Range(1, n, step)

\* a ratio that falls back to 1 where tau is 0
TimeDilationDefaultOne(current_t, current_tau) ==
    IF current_tau # 0 THEN <<current_t, current_tau>> ELSE <<1, 1>>

\* current_t / current_tau if current_tau != 0 else 0, as <<numerator, denominator>>
TimeDilation(current_t, current_tau) ==
    IF current_tau # 0 THEN <<current_t, current_tau>> ELSE <<0, 1>>

\* the two rerun calls of one loop iteration
AnimationFrame(rows, k) ==
    LET current_tau == Cell(rows, "tau", k)
        current_t == Cell(rows, "t", k)
        time_dilation == TimeDilation(current_t, current_tau)
        time_diff == Abs(current_t - current_tau)
    IN  << [fn |-> "set_time", timeline |-> "tau", duration |-> current_tau],
           [fn |-> "log", path |-> "world/particle", archetype |-> "Points3D",
            points |-> << <<Cell(rows, "x", k), Cell(rows, "y", k), Cell(rows, "z", k)>> >>,
            labels |-> [tau |-> current_tau, t |-> current_t,
                        gamma |-> Format6(time_dilation[1], time_dilation[2]),
                        dt |-> time_diff]] >>

\* the calls of the whole loop, in order
FrameCalls(rows, indices) ==
    [i \in 1..(2 * Len(indices)) |-> AnimationFrame(rows, indices[(i + 1) \div 2])[2 - (i % 2)]]

NoFrames ==
    [calls |-> << >>, indices |-> << >>, error |-> NoError, step |-> 0, warned |-> FALSE]

\* one call of _add_rerun_animation_frames: the rerun calls it made, the exception
\* it raised, its stride, and whether it warned
AddRerunAnimationFrames(rows, anim_step_size, max_frames) ==
    IF anim_step_size <= 0 THEN NoFrames
    ELSE LET n == Len(rows)
             tau_max == TauMax(rows)
         IN  IF tau_max = 0
             \* x / 0.0 is inf under numpy, and math.ceil(inf) raises
             THEN [NoFrames EXCEPT !.error =
                      [type |-> "OverflowError",
                       msg |-> "cannot convert float infinity to integer"]]
             ELSE LET computed == ComputedStep(anim_step_size, tau_max, n)
                      step == ClampedStep(computed, max_frames)
                      warned == StepWarns(computed, max_frames)
                  IN  IF step = 0
                      THEN [calls |-> << >>, indices |-> << >>,
                            error |-> [type |-> "ValueError",
                                       msg |-> "range() arg 3 must not be zero"],
                            step |-> step, warned |-> warned]
                      ELSE [calls |-> FrameCalls(rows, FrameIndices(n, step)),
                            indices |-> FrameIndices(n, step),
                            error |-> NoError, step |-> step, warned |-> warned]

----------------------------------------------------------------------------
(* SpaceTimeData.plot *)

InitCall == [fn |-> "init", app |-> "gros", spawn |-> FALSE]

\* the trajectory line strip, from the table's x, y, z columns
TrajectoryCall(rows) ==
    [fn |-> "log", path |-> "world/trajectory", archetype |-> "LineStrips3D",
     points |-> [i \in 1..Len(rows) |->
                    <<Cell(rows, "x", i - 1), Cell(rows, "y", i - 1), Cell(rows, "z", i - 1)>>]]

SingularityCall ==
    [fn |-> "log", path |-> "world/singularity", archetype |-> "Points3D",
     points |-> << <<0, 0, 0>> >>]

\* _log_sphere: the 16 x 16 point cloud is kept as the radius it was built from
LogSphere(radius, name) ==
    [fn |-> "log", path |-> name, archetype |-> "Points3D", radius |-> radius]

\* the last statement of plot
SinkCall(in_wsl) == IF in_wsl THEN [fn |-> "connect_grpc"] ELSE [fn |-> "spawn"]

\* the calls plot makes before the animation frames
StaticCalls(rows, r, ar) ==
    <<InitCall, TrajectoryCall(rows), SingularityCall, LogSphere(r, "world/black_hole")>>
    \o (IF ar > 0 THEN <<LogSphere(ar, "world/attractor")>> ELSE << >>)

\* whether plot calls the sampler
AnimationRequested(step_size) == step_size > 0

\* one plot call on the constructed object; each call starts its own recording
\* with rr.init, so a session is followed up to its first plot
Plot(ar, step_size) ==
    /\ pc = "ready"
    /\ pc' = "plotted"
    /\ attractor_radius' = ar
    /\ animation_step_size' = step_size
    /\ IF ~df.set
       THEN /\ rr_calls' = <<InitCall>>
            /\ error' = [type |-> "AttributeError",
                         msg |-> "'SpaceTimeData' object has no attribute 'df'"]
            /\ UNCHANGED <<frame_step_size, frame_indices, warnings>>
       ELSE LET f == IF AnimationRequested(step_size)
                     THEN AddRerunAnimationFrames(df.rows, step_size, max_num_anim_frames)
                     ELSE NoFrames
            IN  /\ rr_calls' = StaticCalls(df.rows, rs, ar) \o f.calls
                                \o (IF f.error = NoError THEN <<SinkCall(wsl)>> ELSE << >>)
                /\ error' = f.error
                /\ frame_step_size' = f.step
                /\ frame_indices' = f.indices
                /\ warnings' = warnings + (IF f.warned THEN 1 ELSE 0)
    /\ UNCHANGED <<copy_on_write, wsl, given, trajectory, conversion, rs,
                   max_num_anim_frames, df, size_result>>

----------------------------------------------------------------------------
(* Specification *)

Init ==
    /\ copy_on_write \in BOOLEAN
    /\ wsl \in BOOLEAN
    /\ pc = "new"
    /\ given = NoInput
    /\ trajectory = NoInput
    /\ conversion = "spherical_to_cartesian"
    /\ rs = 0
    /\ max_num_anim_frames = 0
    /\ df = NoTable
    /\ error = NoError
    /\ size_result = [error |-> "none", value |-> -1]
    /\ attractor_radius = 0
    /\ animation_step_size = 0
    /\ frame_step_size = 0
    /\ frame_indices = << >>
    /\ warnings = 0
    /\ rr_calls = << >>

Next ==
    \/ \E input \in Inputs, r \in RsVals, conv \in Conversions : Construct(input, r, conv)
    \/ Size
    \/ \E ar \in AttractorVals, step_size \in StepVals : Plot(ar, step_size)

Spec == Init /\ [][Next]_vars

----------------------------------------------------------------------------
(* Vocabulary of the properties *)

\* the spec's names for the two exceptions __init__ raises itself
InvalidTypeError == [type |-> "ValueError", msg |-> "dataset must be numpy ndarray!"]

InvalidShapeError == [type |-> "ValueError", msg |-> "dataset shape needs to be (N,5)!"]

Constructed == pc \in {"ready", "plotted"}

\* the array handed to __init__ was an (N,5) ndarray
GivenWellFormed == given.isnd /\ Len(given.shape) = 2 /\ given.shape[2] = 5

\* ... with zero rows or only zeros in it
GivenEmpty == GivenWellFormed /\ \A i \in 1..Len(given.data) : given.data[i] = ZeroRow

\* a plot call ran on a dataset that holds a table
PlottedTable == pc = "plotted" /\ df.set

IsLog(c, path) == c.fn = "log" /\ c.path = path

IsParticle(c) == IsLog(c, "world/particle")

IsTrajectory(c) == IsLog(c, "world/trajectory")

IsSink(c) == c.fn \in {"spawn", "connect_grpc"}

NumFrames == Len(SelectSeq(rr_calls, IsParticle))

NumSinks == Len(SelectSeq(rr_calls, IsSink))

\* the number of rerun calls before the first animation frame
StaticLen == IF attractor_radius > 0 THEN 5 ELSE 4

SinkSelectedLast ==
    /\ NumSinks = 1
    /\ rr_calls[Len(rr_calls)] = (IF wsl THEN [fn |-> "connect_grpc"] ELSE [fn |-> "spawn"])

----------------------------------------------------------------------------
(* C1 *)

\* C1: for every non-empty dataset with tau_max > 0 and every positive
\* animation_step_size, one plot call emits at most max_num_anim_frames frames.
C1_FrameCountCapped ==
    (PlottedTable /\ TauMax(df.rows) > 0 /\ animation_step_size > 0)
        => NumFrames <= max_num_anim_frames

----------------------------------------------------------------------------
(* C2 *)

\* C2: on a non-empty dataset whose tau values are all 0, plot with a positive
\* animation_step_size raises nothing, emits no animation frame and reaches the
\* selection of the render sink.
C2_DegenerateSpanNoFault ==
    (PlottedTable /\ TauMax(df.rows) = 0 /\ animation_step_size > 0)
        => (error = NoError /\ NumFrames = 0 /\ SinkSelectedLast)

----------------------------------------------------------------------------
(* C3 *)

\* C3: a dataset built from an (N,5) array with zero rows or only zeros is in the
\* empty state, and size() on it returns 0 rather than failing.
C3_EmptySizeZero ==
    (Constructed /\ GivenEmpty /\ size_result # [error |-> "none", value |-> -1])
        => size_result = [error |-> "none", value |-> 0]

----------------------------------------------------------------------------
(* C4 *)

\* C4: plot on a dataset built from an all-zero (N,5) array does not fail; it
\* emits no trajectory path, but the singularity marker, the rs sphere and, when
\* attractor_radius > 0, the attractor sphere.
C4_EmptyPlotEmitsMarkers ==
    (pc = "plotted" /\ GivenEmpty)
        => /\ error = NoError
           /\ \A i \in 1..Len(rr_calls) : ~IsTrajectory(rr_calls[i])
           /\ \E i \in 1..Len(rr_calls) : rr_calls[i] = SingularityCall
           /\ \E i \in 1..Len(rr_calls) : rr_calls[i] = LogSphere(rs, "world/black_hole")
           /\ attractor_radius > 0 =>
                \E i \in 1..Len(rr_calls) :
                    rr_calls[i] = LogSphere(attractor_radius, "world/attractor")

----------------------------------------------------------------------------
(* C5 *)

\* C5: after construction from a non-zero (N,5) array the table's row k holds the
\* input row's tau and t and, under the default policy, the Cartesian conversion
\* of the input row's (r, theta, phi); under another policy the triple unchanged.
C5_TableHoldsConversion ==
    (Constructed /\ df.set)
        => /\ Len(df.rows) = Len(given.data)
           /\ \A i \in 1..Len(df.rows) :
                LET in == given.data[i]
                    xyz == IF conversion = "spherical_to_cartesian"
                           THEN spherical_to_cartesian(in[3], in[4], in[5])
                           ELSE <<in[3], in[4], in[5]>>
                IN  df.rows[i] = <<in[1], in[2], xyz[1], xyz[2], xyz[3]>>

----------------------------------------------------------------------------
(* C6 *)

\* C6: for a dataset with N > 1 samples and a positive animation_step_size the
\* frame indices the sampler emits are strictly increasing, the first is at
\* least 1 and every one is below N.
C6_FrameIndicesMonotonic ==
    (PlottedTable /\ Len(df.rows) > 1 /\ animation_step_size > 0)
        => /\ \A i \in 1..Len(frame_indices) :
                /\ frame_indices[i] >= 1
                /\ frame_indices[i] < Len(df.rows)
                /\ i > 1 => frame_indices[i - 1] < frame_indices[i]
           /\ NumFrames = Len(frame_indices)

\* a call that emitted at least two frames
C6_Witness ==
    /\ PlottedTable /\ Len(df.rows) > 1 /\ animation_step_size > 0
    /\ Len(frame_indices) >= 2
    /\ NumFrames = Len(frame_indices)

----------------------------------------------------------------------------
(* C7 *)

\* C7: __init__ validates before it builds anything: an input that is no array
\* fails with InvalidTypeError, an array whose shape is not (N,5) fails with
\* InvalidShapeError, and in both cases no dataset is created.
C7_ValidationFailsTyped ==
    pc # "new" =>
        /\ ~given.isnd => (pc = "failed" /\ error = InvalidTypeError /\ ~df.set)
        /\ (given.isnd /\ ~GivenWellFormed)
                => (pc = "failed" /\ error = InvalidShapeError /\ ~df.set)

----------------------------------------------------------------------------
(* C8 *)

\* C8: one plot call on a non-empty dataset emits, in this order, the trajectory
\* path, the singularity marker, the rs sphere, the attractor sphere iff
\* attractor_radius > 0, animation frames only if animation_step_size > 0, and
\* after all of them selects exactly one render sink, by the environment.
C8_PlotOrder ==
    PlottedTable =>
        /\ Len(rr_calls) >= StaticLen + 1
        /\ rr_calls[1] = InitCall
        /\ IsTrajectory(rr_calls[2])
        /\ rr_calls[3] = SingularityCall
        /\ rr_calls[4] = LogSphere(rs, "world/black_hole")
        /\ attractor_radius > 0 => rr_calls[5] = LogSphere(attractor_radius, "world/attractor")
        /\ \A i \in 1..Len(rr_calls) :
                /\ IsLog(rr_calls[i], "world/attractor") => (attractor_radius > 0 /\ i = 5)
                /\ (IsParticle(rr_calls[i]) \/ rr_calls[i].fn = "set_time")
                        => (animation_step_size > 0 /\ StaticLen < i /\ i < Len(rr_calls))
                /\ (StaticLen < i /\ i < Len(rr_calls))
                        => (IsParticle(rr_calls[i]) \/ rr_calls[i].fn = "set_time")
        /\ SinkSelectedLast

----------------------------------------------------------------------------
(* C9 *)

\* C9: with tau_max > 0 and a positive step size s the sampler's stride is
\* min(ceil(s / tau_max * N), max_num_anim_frames), a warning is recorded exactly
\* when the ceiling exceeds max_num_anim_frames, and sampling then proceeds with
\* the clamped stride: indices 1, 1 + stride, ... below N.
C9_StrideClampedWithWarning ==
    (PlottedTable /\ TauMax(df.rows) > 0 /\ animation_step_size > 0)
        => LET n == Len(df.rows)
               tau_max == TauMax(df.rows)
               want == animation_step_size * n
               fs == frame_step_size
           IN  /\ \/ /\ warnings = 0
                     /\ fs <= max_num_anim_frames
                     /\ fs * tau_max >= want
                     /\ (fs - 1) * tau_max < want
                  \/ /\ warnings = 1
                     /\ fs = max_num_anim_frames
                     /\ max_num_anim_frames * tau_max < want
               /\ error = NoError
               /\ \A i \in 1..Len(frame_indices) : frame_indices[i] = 1 + (i - 1) * fs
               /\ 1 + (Len(frame_indices) - 1) * fs < n \/ Len(frame_indices) = 0
               /\ 1 + Len(frame_indices) * fs >= n
               /\ NumFrames = Len(frame_indices)

\* a call that warned, clamped, and still emitted two frames
C9_Witness ==
    /\ PlottedTable /\ TauMax(df.rows) > 0 /\ animation_step_size > 0
    /\ warnings = 1
    /\ frame_step_size = max_num_anim_frames
    /\ Len(frame_indices) = 2
    /\ NumFrames = 2

----------------------------------------------------------------------------
(* C10 *)

\* C10: the frame emitted for index k is time-tagged with row k's tau, placed at
\* row k's (x, y, z) and labelled with row k's tau and t, with t / tau to six
\* decimals when tau # 0 and exactly 0 when tau = 0, and with |t - tau|.
C10_FrameCarriesRow ==
    PlottedTable =>
        /\ NumFrames = Len(frame_indices)
        /\ \A i \in 1..Len(frame_indices) :
            LET row == df.rows[frame_indices[i] + 1]
                tag == rr_calls[StaticLen + 2 * i - 1]
                frame == rr_calls[StaticLen + 2 * i]
            IN  /\ tag.fn = "set_time" /\ tag.duration = row[1]
                /\ IsParticle(frame)
                /\ frame.points = << <<row[3], row[4], row[5]>> >>
                /\ frame.labels.tau = row[1]
                /\ frame.labels.t = row[2]
                /\ row[1] = 0 => frame.labels.gamma = 0
                /\ row[1] # 0 =>
                      2 * Abs(frame.labels.gamma * row[1] - row[2] * 1000000) <= Abs(row[1])
                /\ frame.labels.dt >= 0
                /\ frame.labels.dt \in {row[2] - row[1], row[1] - row[2]}

\* a frame emitted for a row whose tau is 0 while its t is not
C10_Witness ==
    /\ PlottedTable
    /\ \E i \in 1..Len(frame_indices) :
            /\ df.rows[frame_indices[i] + 1][1] = 0
            /\ df.rows[frame_indices[i] + 1][2] # 0
            /\ IsParticle(rr_calls[StaticLen + 2 * i])
            /\ rr_calls[StaticLen + 2 * i].labels.gamma = 0

====
